---- MODULE Spec2Model ----
(***************************************************************************)
(* Model of the chess application: the App component (src/src/App.jsx,     *)
(* first definition), its peer-to-peer wiring (src/src/net/p2p.js) and the *)
(* search opponent (src/unnamed/part_004, "src/ai/engine.js").             *)
(*                                                                         *)
(* The rules engine (chess.js) is an imported library.  It is modelled by  *)
(* a scaled-down board (Files x Ranks) carrying pawns and the officers     *)
(* they promote to, with the interface the application uses: move() returns *)
(* the applied move or nothing, load() replaces the position and drops the *)
(* history, fen() serialises board, side to move and move number.          *)
(***************************************************************************)
EXTENDS Integers, Sequences, FiniteSets, TLC

\* ------------------------------------------------------------------ bounds
MaxJobId == 2      \* largest search-job id issued
MaxPeers == 1      \* other participants the transport can report
MaxMen == 3        \* men on the board of a position handed to the engine
MaxDepth == 3      \* deepest search asked of the engine
MaxInbox == 2      \* assign messages waiting at one participant of the room

\* ------------------------------------------------------- rules engine model
Files == {1, 2}
Ranks == {1, 2, 3}
TopRank == CHOOSE r \in Ranks : \A q \in Ranks : q <= r
BottomRank == CHOOSE r \in Ranks : \A q \in Ranks : q >= r
NumFiles == Cardinality(Files)
Squares == Files \X Ranks
NoSq == <<0, 0>>

Colors == {"w", "b"}
Other(c) == IF c = "w" THEN "b" ELSE "w"

PromoOrder == <<"q", "n">>
PromoPieces == {PromoOrder[i] : i \in 1..Len(PromoOrder)}
NoPromo == "none"

EmptySq == "."
WhitePieces == {"P", "Q", "N"}
BlackPieces == {"p", "q", "n"}
PieceChars == WhitePieces \cup BlackPieces

\* game.get(square).color
ColorOf(pc) == IF pc \in WhitePieces THEN "w" ELSE IF pc \in BlackPieces THEN "b" ELSE "none"
\* game.get(square).type
TypeOf(pc) ==
  CASE pc \in {"P", "p"} -> "p"
    [] pc \in {"Q", "q"} -> "q"
    [] pc \in {"N", "n"} -> "n"
    [] OTHER -> "none"
MakePiece(c, t) ==
  CASE t = "p" -> IF c = "w" THEN "P" ELSE "p"
    [] t = "q" -> IF c = "w" THEN "Q" ELSE "q"
    [] OTHER -> IF c = "w" THEN "N" ELSE "n"

\* farthest rank for a pawn of colour c
LastRank(c) == IF c = "w" THEN TopRank ELSE BottomRank
Dir(c) == IF c = "w" THEN 1 ELSE -1

\* new Chess(): the default position, white to move, move number 1, no history
InitBoard ==
  [s \in Squares |->
     IF s \in {<<1, 1>>, <<2, 2>>} THEN "P"
     ELSE IF s = <<1, 3>> THEN "p" ELSE EmptySq]
NewChess == [board |-> InitBoard, turn |-> "w", moveNumber |-> 1, history |-> <<>>]

\* squares in the engine's generation order: top rank first, files ascending
SqOrder ==
  [i \in 1..(NumFiles * Cardinality(Ranks)) |->
     <<((i - 1) % NumFiles) + 1, TopRank - ((i - 1) \div NumFiles)>>]

Mv(from, to, promo, cap) == [from |-> from, to |-> to, promotion |-> promo, capture |-> cap]

\* a pawn move to `to`: one move per promotion piece on the farthest rank
PawnTo(c, from, to, cap) ==
  IF to[2] = LastRank(c)
  THEN [i \in 1..Len(PromoOrder) |-> Mv(from, to, PromoOrder[i], cap)]
  ELSE <<Mv(from, to, NoPromo, cap)>>

PawnMoves(board, c, from) ==
  LET push == <<from[1], from[2] + Dir(c)>>
      capA == <<from[1] - Dir(c), from[2] + Dir(c)>>
      capB == <<from[1] + Dir(c), from[2] + Dir(c)>>
      P == IF push \in Squares /\ board[push] = EmptySq
           THEN PawnTo(c, from, push, FALSE) ELSE <<>>
      A == IF capA \in Squares /\ ColorOf(board[capA]) = Other(c)
           THEN PawnTo(c, from, capA, TRUE) ELSE <<>>
      B == IF capB \in Squares /\ ColorOf(board[capB]) = Other(c)
           THEN PawnTo(c, from, capB, TRUE) ELSE <<>>
  IN P \o A \o B

\* the moves of the man on sq; promoted officers stay where they were made
MovesFrom(pos, sq) ==
  LET pc == pos.board[sq] IN
  IF ColorOf(pc) # pos.turn THEN <<>>
  ELSE IF TypeOf(pc) = "p" THEN PawnMoves(pos.board, pos.turn, sq)
  ELSE <<>>

RECURSIVE GenFrom(_, _)
GenFrom(pos, i) ==
  IF i > Len(SqOrder) THEN <<>>
  ELSE MovesFrom(pos, SqOrder[i]) \o GenFrom(pos, i + 1)

\* game.moves({ verbose: true })
Moves(pos) == GenFrom(pos, 1)

\* game.isGameOver(): the side to move has no legal move
IsGameOver(pos) == Len(Moves(pos)) = 0

\* the generated move that game.move({from, to, promotion}) selects: the first
\* one with the same from/to whose promotion, if it has one, is the one asked
Matches(m, from, to, promo) ==
  /\ m.from = from
  /\ m.to = to
  /\ (m.promotion = NoPromo \/ m.promotion = promo)

FindMove(pos, from, to, promo) ==
  LET ms == Moves(pos)
      I == {i \in 1..Len(ms) : Matches(ms[i], from, to, promo)}
  IN IF I = {} THEN 0 ELSE CHOOSE i \in I : \A j \in I : i <= j

\* a move() that reports a move for every request
IsLegal_Any(pos, from, to, promo) == TRUE
\* game.move({from, to, promotion}) returns a move: the request is legal
IsLegal(pos, from, to, promo) == FindMove(pos, from, to, promo) # 0

Snapshot(pos) == [board |-> pos.board, turn |-> pos.turn, moveNumber |-> pos.moveNumber]

\* the position after a generated move m
MakeMove(pos, m) ==
  LET pc == pos.board[m.from]
      placed == IF m.promotion = NoPromo THEN pc ELSE MakePiece(pos.turn, m.promotion)
  IN [board |-> [pos.board EXCEPT ![m.from] = EmptySq, ![m.to] = placed],
      turn |-> Other(pos.turn),
      moveNumber |-> IF pos.turn = "b" THEN pos.moveNumber + 1 ELSE pos.moveNumber,
      history |-> Append(pos.history, Snapshot(pos))]

\* game.move({from, to, promotion}): the position afterwards (unchanged if rejected)
GameMove(pos, from, to, promo) ==
  LET i == FindMove(pos, from, to, promo)
  IN IF i # 0 THEN MakeMove(pos, Moves(pos)[i]) ELSE pos

\* an undo that leaves the position as it is
GameUndo_Nothing(pos) == pos
\* game.undo(): pops one ply; does nothing when the history is empty
GameUndo(pos) ==
  LET n == Len(pos.history)
  IN IF n = 0 THEN pos
     ELSE [board |-> pos.history[n].board, turn |-> pos.history[n].turn,
           moveNumber |-> pos.history[n].moveNumber,
           history |-> SubSeq(pos.history, 1, n - 1)]

\* ------------------------------------------------------------ serialisation
DigitStr == <<"1", "2", "3", "4", "5", "6", "7", "8", "9">>
DigitOf == [t \in {DigitStr[i] : i \in 1..Len(DigitStr)} |->
              CHOOSE i \in 1..Len(DigitStr) : DigitStr[i] = t]
DigitVal(t) == IF t \in DOMAIN DigitOf THEN DigitOf[t] ELSE 0

\* one rank of the board field: pieces as letters, runs of empty squares as a digit
RECURSIVE RowFen(_, _, _, _)
RowFen(board, r, f, run) ==
  IF f > NumFiles THEN (IF run > 0 THEN <<DigitStr[run]>> ELSE <<>>)
  ELSE IF board[<<f, r>>] = EmptySq THEN RowFen(board, r, f + 1, run + 1)
  ELSE (IF run > 0 THEN <<DigitStr[run]>> ELSE <<>>)
       \o <<board[<<f, r>>]>> \o RowFen(board, r, f + 1, 0)

RECURSIVE BoardFen(_, _)
BoardFen(board, r) ==
  IF r < BottomRank THEN <<>>
  ELSE RowFen(board, r, 1, 0)
       \o (IF r > BottomRank THEN <<"/">> ELSE <<>>)
       \o BoardFen(board, r - 1)

\* game.fen(): board field, side to move, move number
Fen(pos) == BoardFen(pos.board, TopRank) \o <<" ", pos.turn, " ", DigitStr[pos.moveNumber]>>

\* the tokens of s before the first blank (the board field) and after it
RECURSIVE FirstBlank(_, _)
FirstBlank(s, i) == IF i > Len(s) THEN 0 ELSE IF s[i] = " " THEN i ELSE FirstBlank(s, i + 1)

\* expands one token of a rank into squares
Expand(t) == IF DigitVal(t) > 0 THEN [i \in 1..DigitVal(t) |-> EmptySq] ELSE <<t>>

\* parses the board field into a sequence of ranks (top first), each a sequence of squares
RECURSIVE ParseRows(_, _, _)
ParseRows(s, i, cur) ==
  IF i > Len(s) THEN <<cur>>
  ELSE IF s[i] = "/" THEN <<cur>> \o ParseRows(s, i + 1, <<>>)
  ELSE ParseRows(s, i + 1, cur \o Expand(s[i]))

FenFields(s) ==
  LET b == FirstBlank(s, 1) IN
  [rows |-> IF b = 0 THEN <<>> ELSE ParseRows(SubSeq(s, 1, b - 1), 1, <<>>),
   rest |-> IF b = 0 THEN <<>> ELSE SubSeq(s, b + 1, Len(s))]

\* validateFen: the right number of ranks and files, known pieces, a side to
\* move and a move number
ValidFen(s) ==
  LET f == FenFields(s) IN
  /\ \A i \in 1..(Len(s) - 1) : ~(DigitVal(s[i]) > 0 /\ DigitVal(s[i + 1]) > 0)
  /\ Len(f.rows) = Cardinality(Ranks)
  /\ \A i \in 1..Len(f.rows) :
       /\ Len(f.rows[i]) = NumFiles
       /\ \A j \in 1..Len(f.rows[i]) : f.rows[i][j] \in PieceChars \cup {EmptySq}
  /\ Len(f.rest) = 3
  /\ f.rest[1] \in Colors
  /\ f.rest[2] = " "
  /\ DigitVal(f.rest[3]) > 0

\* a load that clears the position before it validates the string
GameLoad_ClearFirst(pos, s) ==
  IF ~ValidFen(s)
  THEN [board |-> [sq \in Squares |-> EmptySq], turn |-> "w", moveNumber |-> 1,
        history |-> <<>>]
  ELSE LET f == FenFields(s) IN
       [board |-> [sq \in Squares |-> f.rows[TopRank - sq[2] + 1][sq[1]]],
        turn |-> f.rest[1],
        moveNumber |-> DigitVal(f.rest[3]),
        history |-> <<>>]
\* game.load(fen): replaces the position and clears the history; a string that
\* does not validate leaves the position as it was
GameLoad(pos, s) ==
  IF ~ValidFen(s) THEN pos
  ELSE LET f == FenFields(s) IN
       [board |-> [sq \in Squares |-> f.rows[TopRank - sq[2] + 1][sq[1]]],
        turn |-> f.rest[1],
        moveNumber |-> DigitVal(f.rest[3]),
        history |-> <<>>]

\* ------------------------------------------------- search opponent (engine)
\* piece values (centipawns)
PVp == 100
PVn == 320
PVq == 900
PV(t) == CASE t = "p" -> PVp [] t = "n" -> PVn [] t = "q" -> PVq [] OTHER -> 0

\* scores are kept as integers: every score is multiplied by Scale, so that
\* the 0.05 mobility weight becomes 1
Scale == 20
CenterBonus == 6
Inf == 100000000

\* the centre squares of the board
Centers == {<<1, 2>>, <<2, 2>>}

Men(pos, c) == {s \in Squares : ColorOf(pos.board[s]) = c}

\* chess.isCheckmate(): the side to move has no move and has lost; on this
\* board a side has lost when it has no man left
IsCheckmate(pos) == IsGameOver(pos) /\ Men(pos, pos.turn) = {}
\* chess.isDraw() || chess.isStalemate() || chess.isInsufficientMaterial()
IsDrawn(pos) == IsGameOver(pos) /\ Men(pos, pos.turn) # {}

RECURSIVE SumOver(_, _, _)
SumOver(S, F(_), acc) ==
  IF S = {} THEN acc
  ELSE LET x == CHOOSE y \in S : TRUE IN SumOver(S \ {x}, F, acc + F(x))

\* a checkmate score with the sign the wrong way round
MateScore_Flipped(turn) == IF turn = "w" THEN Inf ELSE -Inf
\* evaluate(chess) on a checkmate: the side to move has lost
MateScore(turn) == IF turn = "w" THEN -Inf ELSE Inf

\* evaluate(chess), times Scale, from White's perspective
Evaluate(pos) ==
  IF IsCheckmate(pos) THEN MateScore(pos.turn)
  ELSE IF IsDrawn(pos) THEN 0
  ELSE
    LET Mat(s) == IF pos.board[s] = EmptySq THEN 0
                  ELSE IF ColorOf(pos.board[s]) = "w" THEN PV(TypeOf(pos.board[s]))
                  ELSE 0 - PV(TypeOf(pos.board[s]))
        \* moves() ignores the `turn` option: both counts are the side to move's
        n == Len(Moves(pos))
        wMoves == IF n = 0 THEN 1 ELSE n
        bMoves == IF n = 0 THEN 1 ELSE n
        Ctr(s) == IF pos.board[s] = EmptySq THEN 0
                  ELSE IF ColorOf(pos.board[s]) = "w" THEN CenterBonus ELSE 0 - CenterBonus
    IN Scale * SumOver(Squares, Mat, 0) + (wMoves - bMoves) + Scale * SumOver(Centers, Ctr, 0)

\* orderMoves(moves): a stable sort, captures first, then promotions
OrderMoves(ms) ==
  LET CP(m) == m.capture /\ m.promotion # NoPromo
      CN(m) == m.capture /\ m.promotion = NoPromo
      NP(m) == ~m.capture /\ m.promotion # NoPromo
      NN(m) == ~m.capture /\ m.promotion = NoPromo
  IN SelectSeq(ms, CP) \o SelectSeq(ms, CN) \o SelectSeq(ms, NP) \o SelectSeq(ms, NN)

NoMove == Mv(NoSq, NoSq, NoPromo, FALSE)
MaxOf(a, b) == IF a >= b THEN a ELSE b
MinOf(a, b) == IF a <= b THEN a ELSE b

\* search(chess, depth, alpha, beta, maximizer) and its loop over the moves
RECURSIVE Search(_, _, _, _, _)
RECURSIVE SearchLoop(_, _, _, _, _, _, _, _, _)
SearchLoop(pos, ms, i, depth, alpha, beta, maximizer, best, bestMove) ==
  IF i > Len(ms) THEN [score |-> best, move |-> bestMove]
  ELSE
    LET score == Search(MakeMove(pos, ms[i]), depth - 1, alpha, beta, ~maximizer).score
        better == IF maximizer THEN score > best ELSE score < best
        best2 == IF better THEN score ELSE best
        move2 == IF better THEN ms[i] ELSE bestMove
        alpha2 == IF maximizer THEN MaxOf(alpha, best2) ELSE alpha
        beta2 == IF maximizer THEN beta ELSE MinOf(beta, best2)
    IN IF beta2 <= alpha2
       THEN [score |-> best2, move |-> move2]
       ELSE SearchLoop(pos, ms, i + 1, depth, alpha2, beta2, maximizer, best2, move2)

Search(pos, depth, alpha, beta, maximizer) ==
  IF depth = 0 \/ IsGameOver(pos) THEN [score |-> Evaluate(pos), move |-> NoMove]
  ELSE
    LET ms == OrderMoves(Moves(pos)) IN
    IF Len(ms) = 0 THEN [score |-> Evaluate(pos), move |-> NoMove]
    ELSE SearchLoop(pos, ms, 1, depth, alpha, beta, maximizer,
                    IF maximizer THEN -Inf ELSE Inf, NoMove)

\* search(chess, ...) on its working position: chess.move() before each
\* child, chess.undo() after it, then the test and the break.  The result
\* carries the working position as search leaves it and the number of cuts.
RECURSIVE SearchInPlace(_, _, _, _, _)
RECURSIVE SearchInPlaceLoop(_, _, _, _, _, _, _, _, _, _)
SearchInPlaceLoop(chess, ms, i, depth, alpha, beta, maximizer, best, bestMove, cuts) ==
  IF i > Len(ms) THEN [score |-> best, move |-> bestMove, chess |-> chess, cuts |-> cuts]
  ELSE
    LET child == SearchInPlace(MakeMove(chess, ms[i]), depth - 1, alpha, beta, ~maximizer)
        undone == GameUndo(child.chess)
        better == IF maximizer THEN child.score > best ELSE child.score < best
        best2 == IF better THEN child.score ELSE best
        move2 == IF better THEN ms[i] ELSE bestMove
        alpha2 == IF maximizer THEN MaxOf(alpha, best2) ELSE alpha
        beta2 == IF maximizer THEN beta ELSE MinOf(beta, best2)
    IN IF beta2 <= alpha2
       THEN [score |-> best2, move |-> move2, chess |-> undone,
             cuts |-> cuts + child.cuts + 1]
       ELSE SearchInPlaceLoop(undone, ms, i + 1, depth, alpha2, beta2, maximizer,
                              best2, move2, cuts + child.cuts)

SearchInPlace(chess, depth, alpha, beta, maximizer) ==
  IF depth = 0 \/ IsGameOver(chess)
  THEN [score |-> Evaluate(chess), move |-> NoMove, chess |-> chess, cuts |-> 0]
  ELSE
    LET ms == OrderMoves(Moves(chess)) IN
    IF Len(ms) = 0
    THEN [score |-> Evaluate(chess), move |-> NoMove, chess |-> chess, cuts |-> 0]
    ELSE SearchInPlaceLoop(chess, ms, 1, depth, alpha, beta, maximizer,
                           IF maximizer THEN -Inf ELSE Inf, NoMove, 0)

\* the value of search without its window: every move is searched to the
\* depth, White takes the largest value and Black the smallest
SetMax(S) == CHOOSE x \in S : \A y \in S : y <= x
SetMin(S) == CHOOSE x \in S : \A y \in S : y >= x
RECURSIVE Minimax(_, _, _)
MinimaxChildren(pos, ms, depth, maximizer) ==
  [i \in 1..Len(ms) |-> Minimax(MakeMove(pos, ms[i]), depth - 1, ~maximizer)]
Minimax(pos, depth, maximizer) ==
  IF depth = 0 \/ IsGameOver(pos) THEN Evaluate(pos)
  ELSE LET vals == MinimaxChildren(pos, OrderMoves(Moves(pos)), depth, maximizer)
           V == {vals[i] : i \in 1..Len(vals)}
       IN IF maximizer THEN SetMax(V) ELSE SetMin(V)

\* aiParamsForDifficulty(level); randomness in percent
Difficulties == {"easy", "medium", "hard"}
AiParamsForDifficulty(level) ==
  CASE level = "easy" -> [depth |-> 1, randomness |-> 50]
    [] level = "hard" -> [depth |-> 3, randomness |-> 0]
    [] OTHER -> [depth |-> 2, randomness |-> 15]

\* the candidates of the randomized branch: the first min(4, n) ordered moves
TopK == 4
RandomPicks(pos) ==
  LET ms == OrderMoves(Moves(pos))
      k == MinOf(TopK, Len(ms))
  IN {ms[i] : i \in 1..k}

\* a deterministic branch that returns what the search returned
StrictBest_NoFallback(pos, depth) ==
  Search(pos, depth, -Inf, Inf, pos.turn = "w").move
\* the result of the deterministic branch: best || legal[0]
StrictBest(pos, depth) ==
  LET best == Search(pos, depth, -Inf, Inf, pos.turn = "w").move
  IN IF best # NoMove THEN best ELSE Moves(pos)[1]

\* computeBestMove(fen, {depth, randomness}): the moves it can return, over
\* the outcomes of Math.random(); the empty set stands for null
ComputeBestMove(fen, params) ==
  LET chess == GameLoad(NewChess, fen) IN
  IF Len(Moves(chess)) = 0 THEN {}
  ELSE (IF params.depth <= 1 /\ params.randomness > 0 THEN RandomPicks(chess) ELSE {})
       \cup (IF params.depth <= 1 /\ params.randomness >= 100 THEN {}
             ELSE {StrictBest(chess, params.depth)})

\* ---------------------------------------------------------------- App state
VARIABLES
  game,              \* chessRef.current: board, turn, moveNumber, history
  fen,               \* useState(game.fen())
  selected,          \* selected square or NoSq
  orientation,       \* "white" | "black"
  pendingPromotion,  \* {from, to} or NoPending
  lastMove,          \* {from, to} or NoLast
  mpEnabled,         \* multiplayer mode
  isHost,
  myP2PColor,        \* "w" | "b" | "null"
  peerCount,
  p2p,               \* p2pRef.current, with what its handlers closed over
  spEnabled,         \* single-player mode
  spMyColor,         \* the human's colour
  aiJob,             \* aiJobRef.current: {id, cancelled}
  timers,            \* ids of the scheduled think callbacks
  roomPeers,         \* the transport's peers: conn.room.getPeers().size
  out,               \* messages sent by the last step
  ev,                \* the last step: operation, whether it changed the position, job
  invalidated,       \* pending jobs that were superseded or cancelled
  room               \* a room of two participants: the session state of each

vars == <<game, fen, selected, orientation, pendingPromotion, lastMove, mpEnabled,
          isHost, myP2PColor, peerCount, p2p, spEnabled, spMyColor,
          aiJob, timers, roomPeers, out, ev, invalidated, room>>

\* the state of the application of one participant
appVars == <<game, fen, selected, orientation, pendingPromotion, lastMove, mpEnabled,
             isHost, myP2PColor, peerCount, p2p, spEnabled, spMyColor,
             aiJob, timers, roomPeers, out, ev, invalidated>>

NoPending == [from |-> NoSq, to |-> NoSq]
NoLast == [from |-> NoSq, to |-> NoSq]
NoConn == [conn |-> FALSE, mpEnabled |-> FALSE, isHost |-> FALSE, orientation |-> "white"]
NoColor == "null"

\* the two participants of a room; for each: connected, multiplayer shown as
\* on, the other is in its peer list, its host flag and colour, the host flag
\* its handlers closed over, and the assign messages on their way to it
Participants == {1, 2}
OtherOf(i) == 3 - i
Absent ==
  [conn |-> FALSE, mp |-> FALSE, sees |-> FALSE, isHost |-> FALSE, color |-> NoColor,
   closHost |-> FALSE, inbox |-> <<>>]
NoRoom == [i \in Participants |-> Absent]

\* the record of a step: the operation, whether it changed the position (a
\* move applied, a ply undone, a reset, a state loaded), the job of a think
\* callback, and whether a promotion was pending when it started
EvJob(op, applied, job) ==
  [op |-> op, applied |-> applied, job |-> job, pend |-> pendingPromotion # NoPending]
Ev(op, applied) == EvJob(op, applied, 0)

MoveMsg(from, to, promo) == [kind |-> "move", from |-> from, to |-> to, promotion |-> promo]
SyncMsg(f, o) == [kind |-> "sync", fen |-> f, orientation |-> o]
CtrlMsg(type, color) == [kind |-> "control", type |-> type, color |-> color]

Init ==
  /\ game = NewChess
  /\ fen = Fen(NewChess)
  /\ selected = NoSq
  /\ orientation = "white"
  /\ pendingPromotion = NoPending
  /\ lastMove = NoLast
  /\ mpEnabled = FALSE
  /\ isHost = FALSE
  /\ myP2PColor = NoColor
  /\ peerCount = 0
  /\ p2p = NoConn
  /\ spEnabled = TRUE
  /\ spMyColor = "w"
  /\ aiJob = [id |-> 0, cancelled |-> FALSE]
  /\ timers = {}
  /\ roomPeers = 0
  /\ out = <<>>
  /\ ev = [op |-> "init", applied |-> FALSE, job |-> 0, pend |-> FALSE]
  /\ invalidated = {}
  /\ room = NoRoom

\* a job id may still be issued (bound of the exploration)
CanIssue == aiJob.id < MaxJobId

\* a tryMove that refuses every move while a promotion is pending
TryMoveOk_Locked(from, to, promo) ==
  pendingPromotion = NoPending /\ IsLegal(game, from, to, promo)
\* tryMove(from, to, promotion) returns true: game.move() applied the move
TryMoveOk(from, to, promo) == IsLegal(game, from, to, promo)

\* a handler that changes the position store and leaves the projection alone
SetFen_Skip(pos) == fen
\* setFen(game.fen()): the serialized position handed to the presentation
\* layer after an operation that left the store as pos
SetFen(pos) == Fen(pos)

\* a softResetSelections that leaves the last-move record alone
SoftResetSelections_KeepLast ==
  [selected |-> NoSq, pendingPromotion |-> NoPending, lastMove |-> lastMove]
\* a softResetSelections that leaves the pending promotion alone
SoftResetSelections_KeepPending ==
  [selected |-> NoSq, pendingPromotion |-> pendingPromotion, lastMove |-> NoLast]
\* softResetSelections(): the selection, pending promotion and last move after it
SoftResetSelections == [selected |-> NoSq, pendingPromotion |-> NoPending, lastMove |-> NoLast]

\* userIsAllowedToMoveAt(square)
UserIsAllowedToMoveAt(square) ==
  /\ (mpEnabled /\ myP2PColor # NoColor) =>
       /\ game.turn = myP2PColor
       /\ ColorOf(game.board[square]) = myP2PColor
  /\ spEnabled => game.turn = spMyColor

\* the guards of maybeMakeAIMove() on the position g, in a render with
\* single-player sp and human colour col: a job is issued
WantsAIMove(g, sp, col) == sp /\ g.turn # col /\ ~IsGameOver(g)

\* maybeMakeAIMove(): the job token, timers and superseded jobs afterwards
MaybeMakeAIMove(g, sp, col) ==
  IF WantsAIMove(g, sp, col)
  THEN /\ CanIssue
       /\ aiJob' = [id |-> aiJob.id + 1, cancelled |-> FALSE]
       /\ timers' = timers \cup {aiJob.id + 1}
       /\ invalidated' = invalidated \cup timers
  ELSE UNCHANGED <<aiJob, timers, invalidated>>

\* cancelAI()
CancelAI ==
  /\ CanIssue
  /\ aiJob' = [id |-> aiJob.id + 1, cancelled |-> TRUE]
  /\ invalidated' = invalidated \cup timers
  /\ UNCHANGED timers

\* a broadcast that leaves the promotion piece out of the message
MoveBroadcast_NoPiece(from, to, promo) ==
  IF mpEnabled /\ p2p.conn THEN <<MoveMsg(from, to, NoPromo)>> ELSE <<>>
\* the messages a local move sends
MoveBroadcast(from, to, promo) ==
  IF mpEnabled /\ p2p.conn THEN <<MoveMsg(from, to, promo)>> ELSE <<>>

sessionVars == <<mpEnabled, isHost, myP2PColor, peerCount, p2p, roomPeers>>
spVars == <<spEnabled, spMyColor>>
aiVars == <<aiJob, timers, invalidated>>

\* isPromo in handleSquareClick
IsPromo(square) ==
  LET piece == game.board[selected] IN
  /\ TypeOf(piece) = "p"
  /\ \/ ColorOf(piece) = "w" /\ square[2] = TopRank
     \/ ColorOf(piece) = "b" /\ square[2] = BottomRank

\* a handleSquareClick without the guard
ModalLock_Off == FALSE
\* the guard that opens handleSquareClick: a promotion is pending
ModalLock == pendingPromotion # NoPending

\* handleSquareClick(square)
HandleSquareClick(square) ==
  /\ UNCHANGED room
  /\ UNCHANGED <<orientation, sessionVars, spVars>>
  /\ IF ModalLock THEN
       /\ ev' = Ev("click", FALSE)
       /\ out' = <<>>
       /\ UNCHANGED <<game, fen, selected, pendingPromotion, lastMove, aiVars>>
     ELSE IF selected = NoSq THEN
       /\ selected' = IF UserIsAllowedToMoveAt(square)
                         /\ ColorOf(game.board[square]) = game.turn
                      THEN square ELSE selected
       /\ ev' = Ev("click", FALSE)
       /\ out' = <<>>
       /\ UNCHANGED <<game, fen, pendingPromotion, lastMove, aiVars>>
     ELSE IF square = selected THEN
       /\ selected' = NoSq
       /\ ev' = Ev("click", FALSE)
       /\ out' = <<>>
       /\ UNCHANGED <<game, fen, pendingPromotion, lastMove, aiVars>>
     ELSE IF IsPromo(square) THEN
       /\ pendingPromotion' = [from |-> selected, to |-> square]
       /\ ev' = Ev("click", FALSE)
       /\ out' = <<>>
       /\ UNCHANGED <<game, fen, selected, lastMove, aiVars>>
     ELSE IF TryMoveOk(selected, square, NoPromo) THEN
       \* tryMove succeeded
       /\ game' = GameMove(game, selected, square, NoPromo)
       /\ fen' = SetFen(game')
       /\ selected' = NoSq
       /\ lastMove' = [from |-> selected, to |-> square]
       /\ out' = MoveBroadcast(selected, square, NoPromo)
       /\ MaybeMakeAIMove(game', spEnabled, spMyColor)
       /\ ev' = Ev("click", TRUE)
       /\ UNCHANGED pendingPromotion
     ELSE
       /\ selected' = IF ColorOf(game.board[square]) = game.turn THEN square ELSE selected
       /\ ev' = Ev("click", FALSE)
       /\ out' = <<>>
       /\ UNCHANGED <<game, fen, pendingPromotion, lastMove, aiVars>>

\* choosePromotion(piece)
ChoosePromotion(piece) ==
  /\ UNCHANGED room
  /\ pendingPromotion # NoPending
  /\ UNCHANGED <<orientation, sessionVars, spVars>>
  /\ pendingPromotion' = NoPending
  /\ IF TryMoveOk(pendingPromotion.from, pendingPromotion.to, piece) THEN
       /\ game' = GameMove(game, pendingPromotion.from, pendingPromotion.to, piece)
       /\ fen' = SetFen(game')
       /\ selected' = NoSq
       /\ lastMove' = [from |-> pendingPromotion.from, to |-> pendingPromotion.to]
       /\ out' = MoveBroadcast(pendingPromotion.from, pendingPromotion.to, piece)
       /\ MaybeMakeAIMove(game', spEnabled, spMyColor)
       /\ ev' = Ev("promote", TRUE)
     ELSE
       /\ ev' = Ev("promote", FALSE)
       /\ out' = <<>>
       /\ UNCHANGED <<game, fen, selected, lastMove, aiVars>>

\* the promo-cancel button: setPendingPromotion(null)
CancelPromotion ==
  /\ UNCHANGED room
  /\ pendingPromotion # NoPending
  /\ pendingPromotion' = NoPending
  /\ ev' = Ev("promoCancel", FALSE)
  /\ out' = <<>>
  /\ UNCHANGED <<game, fen, selected, orientation, lastMove, sessionVars, spVars, aiVars>>

\* a resetGame that tells the peer nothing
ResetOut_Silent(broadcast, mp, host, o) == <<>>
\* what resetGame(broadcast) sends
ResetOut(broadcast, mp, host, o) ==
  IF mp /\ p2p.conn /\ broadcast
  THEN <<CtrlMsg("reset", NoColor)>> \o (IF host THEN <<SyncMsg(Fen(NewChess), o)>> ELSE <<>>)
  ELSE <<>>

\* an undo that sends whenever a connection is open, whatever its argument
UndoOut_Always(broadcast, mp) ==
  IF p2p.conn THEN <<CtrlMsg("undo", NoColor)>> ELSE <<>>
\* what undo(broadcast) sends after undoing a ply
UndoOut(broadcast, mp) ==
  IF mp /\ p2p.conn /\ broadcast THEN <<CtrlMsg("undo", NoColor)>> ELSE <<>>

\* resetGame(broadcast) in a render with multiplayer mp, host flag host and
\* orientation o
ResetGame(broadcast, mp, host, o) ==
  /\ CancelAI
  /\ game' = NewChess
  /\ fen' = SetFen(game')
  /\ selected' = SoftResetSelections.selected
  /\ pendingPromotion' = SoftResetSelections.pendingPromotion
  /\ lastMove' = SoftResetSelections.lastMove
  /\ out' = ResetOut(broadcast, mp, host, o)

\* an undo that does not look at the history
HasHistory_Always == TRUE
\* the test that guards undo: there is a move to take back
HasHistory == Len(game.history) > 0

\* undo(broadcast) in a render with multiplayer mp
Undo(broadcast, mp) ==
  /\ CancelAI
  /\ IF HasHistory THEN
       /\ game' = GameUndo(game)
       /\ fen' = SetFen(game')
       /\ selected' = SoftResetSelections.selected
       /\ pendingPromotion' = SoftResetSelections.pendingPromotion
       /\ lastMove' = SoftResetSelections.lastMove
       /\ out' = UndoOut(broadcast, mp)
     ELSE
       /\ out' = <<>>
       /\ UNCHANGED <<game, fen, selected, pendingPromotion, lastMove>>

\* the Undo button
UndoClick ==
  /\ UNCHANGED room
  /\ Undo(TRUE, mpEnabled)
  /\ ev' = Ev("undo", Len(game.history) > 0)
  /\ UNCHANGED <<orientation, sessionVars, spVars>>

\* the Reset button
ResetClick ==
  /\ UNCHANGED room
  /\ ResetGame(TRUE, mpEnabled, isHost, orientation)
  /\ ev' = Ev("reset", TRUE)
  /\ UNCHANGED <<orientation, sessionVars, spVars>>

\* flip()
Flip ==
  /\ UNCHANGED room
  /\ orientation' = IF orientation = "white" THEN "black" ELSE "white"
  /\ ev' = Ev("flip", FALSE)
  /\ out' = <<>>
  /\ UNCHANGED <<game, fen, selected, pendingPromotion, lastMove, sessionVars, spVars, aiVars>>

\* the effect on [spEnabled, spMyColor], run in the render after one of them
\* changed to sp, col: the AI moves first when the human plays black
AiFirstEffect(changed, sp, col) ==
  IF changed /\ sp /\ fen = Fen(NewChess) /\ col = "b"
  THEN MaybeMakeAIMove(game, sp, col)
  ELSE UNCHANGED aiVars

\* the single-player Enabled button (setting both flags to the values they
\* have re-renders nothing and is no step)
EnableSinglePlayer ==
  /\ UNCHANGED room
  /\ ~spEnabled \/ mpEnabled
  /\ spEnabled' = TRUE
  /\ mpEnabled' = FALSE
  /\ AiFirstEffect(~spEnabled, TRUE, spMyColor)
  /\ ev' = Ev("spOn", FALSE)
  /\ out' = <<>>
  /\ UNCHANGED <<game, fen, selected, orientation, pendingPromotion, lastMove,
                 isHost, myP2PColor, peerCount, p2p, roomPeers, spMyColor>>

\* the single-player Disabled button (no step when already disabled)
DisableSinglePlayer ==
  /\ UNCHANGED room
  /\ spEnabled
  /\ spEnabled' = FALSE
  /\ ev' = Ev("spOff", FALSE)
  /\ out' = <<>>
  /\ UNCHANGED <<game, fen, selected, orientation, pendingPromotion, lastMove,
                 sessionVars, spMyColor, aiVars>>

\* the Your Color select (shown while single-player is enabled; onChange
\* fires when another colour is chosen)
SetSpMyColor(c) ==
  /\ UNCHANGED room
  /\ spEnabled
  /\ c # spMyColor
  /\ spMyColor' = c
  /\ AiFirstEffect(c # spMyColor, spEnabled, c)
  /\ ev' = Ev("spColor", FALSE)
  /\ out' = <<>>
  /\ UNCHANGED <<game, fen, selected, orientation, pendingPromotion, lastMove,
                 sessionVars, spEnabled>>

\* a think that tests the cancel flag only
JobIsStale_FlagOnly(jobId) == aiJob.cancelled
\* the test that opens think: the job was cancelled or is not the latest
JobIsStale(jobId) == aiJob.cancelled \/ jobId # aiJob.id

\* the think callback of job jobId, run by the timer.  level is the difficulty
\* the callback closed over: the Difficulty select is read by nothing else, and
\* can be set to any level before the job is issued.
Think(jobId, level) ==
  /\ UNCHANGED room
  /\ jobId \in timers
  /\ timers' = timers \ {jobId}
  /\ out' = <<>>
  /\ UNCHANGED <<orientation, pendingPromotion, sessionVars, spVars, aiJob, invalidated>>
  /\ IF JobIsStale(jobId) THEN
       /\ ev' = EvJob("think", FALSE, jobId)
       /\ UNCHANGED <<game, fen, selected, lastMove>>
     ELSE
       LET results == ComputeBestMove(Fen(game), AiParamsForDifficulty(level)) IN
       IF results = {} THEN
         /\ ev' = EvJob("think", FALSE, jobId)
         /\ UNCHANGED <<game, fen, selected, lastMove>>
       ELSE
         \E best \in results :
           LET needsPromo ==
                 \/ best.promotion # NoPromo
                 \/ /\ TypeOf(game.board[best.from]) = "p"
                    /\ best.to[2] \in {TopRank, BottomRank}
               promo == IF needsPromo
                        THEN (IF best.promotion # NoPromo THEN best.promotion ELSE "q")
                        ELSE NoPromo
           IN IF TryMoveOk(best.from, best.to, promo) THEN
                /\ game' = GameMove(game, best.from, best.to, promo)
                /\ fen' = SetFen(game')
                /\ selected' = NoSq
                /\ lastMove' = [from |-> best.from, to |-> best.to]
                /\ ev' = EvJob("think", TRUE, jobId)
              ELSE
                /\ ev' = EvJob("think", FALSE, jobId)
                /\ UNCHANGED <<game, fen, selected, lastMove>>

\* ------------------------------------------------------------ peer-to-peer
\* an updatePeerCount that makes the host whoever finds the room occupied
IsHostFor_Occupied(size) == size > 0
\* updatePeerCount(): the host flag for a peer count of size
IsHostFor(size) == size = 0
\* an updatePeerCount that never touches the colour
ColorForCount_Keep(size) == myP2PColor
\* updatePeerCount(): the colour for a peer count of size
ColorForCount(size) == IF size = 0 THEN "w" ELSE myP2PColor

\* a connectRoom that leaves single-player as it is
SpAfterConnect_Keep == spEnabled
\* connectRoom(): single-player is switched off by connecting
SpAfterConnect == FALSE

\* connectRoom(): the Create / Join button (shown while multiplayer is off, and
\* disabled until a room code is typed; the code is otherwise unused).
\* The handlers registered here close over isHost and orientation of this
\* render.  size is what getPeers() reports at the join.
ConnectRoom ==
  /\ UNCHANGED room
  /\ ~mpEnabled
  /\ \E size \in 0..MaxPeers :
       /\ p2p.conn => size = roomPeers
       /\ roomPeers' = size
       /\ peerCount' = size
       /\ isHost' = IsHostFor(size)
       /\ myP2PColor' = ColorForCount(size)
  /\ p2p' = [conn |-> TRUE, mpEnabled |-> mpEnabled, isHost |-> isHost, orientation |-> orientation]
  /\ mpEnabled' = TRUE
  /\ spEnabled' = SpAfterConnect
  /\ ev' = Ev("connect", FALSE)
  /\ out' = <<>>
  /\ UNCHANGED <<game, fen, selected, orientation, pendingPromotion, lastMove,
                 spMyColor, aiVars>>

\* disconnectRoom(): the Leave button (shown while multiplayer is on)
DisconnectRoom ==
  /\ UNCHANGED room
  /\ mpEnabled
  /\ p2p' = NoConn
  /\ mpEnabled' = FALSE
  /\ peerCount' = 0
  /\ isHost' = FALSE
  /\ myP2PColor' = NoColor
  /\ roomPeers' = 0
  /\ ev' = Ev("disconnect", FALSE)
  /\ out' = <<>>
  /\ UNCHANGED <<game, fen, selected, orientation, pendingPromotion, lastMove,
                 spVars, aiVars>>

\* the Ask Undo / Ask Reset buttons (shown while multiplayer is on)
AskCtrl(type) ==
  /\ UNCHANGED room
  /\ mpEnabled
  /\ out' = IF p2p.conn THEN <<CtrlMsg(type, NoColor)>> ELSE <<>>
  /\ ev' = Ev("ask", FALSE)
  /\ UNCHANGED <<game, fen, selected, orientation, pendingPromotion, lastMove,
                 sessionVars, spVars, aiVars>>

\* room.onPeerJoin handler: updatePeerCount(), then the host's greeting
OnPeerJoin ==
  /\ UNCHANGED room
  /\ p2p.conn
  /\ roomPeers < MaxPeers
  /\ roomPeers' = roomPeers + 1
  /\ peerCount' = roomPeers'
  /\ isHost' = IsHostFor(roomPeers')
  /\ myP2PColor' = IF p2p.isHost THEN "w" ELSE ColorForCount(roomPeers')
  /\ out' = IF p2p.isHost
            THEN <<SyncMsg(Fen(game), p2p.orientation), CtrlMsg("assign", "b")>>
            ELSE <<>>
  /\ ev' = Ev("peerJoin", FALSE)
  /\ UNCHANGED <<game, fen, selected, orientation, pendingPromotion, lastMove,
                 mpEnabled, p2p, spVars, aiVars>>

\* room.onPeerLeave handler: updatePeerCount()
OnPeerLeave ==
  /\ UNCHANGED room
  /\ p2p.conn
  /\ roomPeers > 0
  /\ roomPeers' = roomPeers - 1
  /\ peerCount' = roomPeers'
  /\ isHost' = IsHostFor(roomPeers')
  /\ myP2PColor' = ColorForCount(roomPeers')
  /\ out' = <<>>
  /\ ev' = Ev("peerLeave", FALSE)
  /\ UNCHANGED <<game, fen, selected, orientation, pendingPromotion, lastMove,
                 mpEnabled, p2p, spVars, aiVars>>

\* a message can arrive: the connection is open and a peer is there to send it
CanReceive == p2p.conn /\ roomPeers > 0

\* conn.onMove handler; an absent from/to is NoSq, an absent promotion NoPromo
OnMove(data) ==
  /\ UNCHANGED room
  /\ CanReceive
  /\ out' = <<>>
  /\ UNCHANGED <<orientation, pendingPromotion, sessionVars, spVars, aiVars>>
  /\ IF TryMoveOk(data.from, data.to, data.promotion) THEN
       /\ game' = GameMove(game, data.from, data.to, data.promotion)
       /\ fen' = SetFen(game')
       /\ selected' = NoSq
       /\ lastMove' = [from |-> data.from, to |-> data.to]
       /\ ev' = Ev("recvMove", TRUE)
     ELSE
       /\ ev' = Ev("recvMove", FALSE)
       /\ UNCHANGED <<game, fen, selected, lastMove>>

\* conn.onSync handler
OnSync(data) ==
  /\ UNCHANGED room
  /\ CanReceive
  /\ out' = <<>>
  /\ ev' = Ev("recvSync", ~data.null /\ data.hasFen /\ ValidFen(data.fen))
  /\ UNCHANGED <<sessionVars, spVars, aiVars>>
  /\ IF data.null THEN
       UNCHANGED <<game, fen, selected, orientation, pendingPromotion, lastMove>>
     ELSE
       /\ orientation' = IF data.hasOrientation THEN data.orientation ELSE orientation
       /\ IF data.hasFen THEN
            \* applyFenString(data.fen)
            /\ game' = GameLoad(game, data.fen)
            /\ fen' = SetFen(game')
            /\ selected' = SoftResetSelections.selected
            /\ pendingPromotion' = SoftResetSelections.pendingPromotion
            /\ lastMove' = SoftResetSelections.lastMove
          ELSE UNCHANGED <<game, fen, selected, pendingPromotion, lastMove>>

\* an assign handler that always takes white
AssignedColor_White(color) == "w"
\* the colour an assign message sets
AssignedColor(color) == IF color = "w" THEN "w" ELSE "b"

\* conn.onCtrl handler; undo and resetGame are those of the render that
\* connected, called with broadcast = false
OnCtrl(msg) ==
  /\ UNCHANGED room
  /\ CanReceive
  /\ UNCHANGED <<orientation, mpEnabled, isHost, peerCount, p2p, roomPeers, spVars>>
  /\ CASE msg.type = "assign" ->
            /\ myP2PColor' = AssignedColor(msg.color)
            /\ out' = <<>>
            /\ ev' = Ev("recvAssign", FALSE)
            /\ UNCHANGED <<game, fen, selected, pendingPromotion, lastMove, aiVars>>
       [] msg.type = "undo" ->
            /\ Undo(FALSE, p2p.mpEnabled)
            /\ ev' = Ev("recvUndo", Len(game.history) > 0)
            /\ UNCHANGED myP2PColor
       [] msg.type = "reset" ->
            /\ ResetGame(FALSE, p2p.mpEnabled, p2p.isHost, p2p.orientation)
            /\ ev' = Ev("recvReset", TRUE)
            /\ UNCHANGED myP2PColor
       [] OTHER ->
            /\ out' = <<>>
            /\ ev' = Ev("recvOther", FALSE)
            /\ UNCHANGED <<game, fen, selected, pendingPromotion, lastMove, myP2PColor, aiVars>>

\* ------------------------------------------------------------ the board views
\* a cell of a view: <<column, row>>, both counted from 0.  In the 2D view the
\* row is the position of the rank's element among the rendered ranks, in
\* the 3D view the cell is the tile <<ix, iz>>.
Cells == (0..(Cardinality(Files) - 1)) \X (0..(TopRank - 1))

\* chess.board(): the rank held by row k of the array (ranks 8..1, top first)
BoardRowRank(k) == TopRank - k

\* Board: the square whose man the element at cell shows; white orientation
\* renders the reversed array, black orientation the array itself
Board2DDrawn(o, cell) ==
  LET k == IF o = "white" THEN (TopRank - 1) - cell[2] ELSE cell[2]
  IN <<cell[1] + 1, BoardRowRank(k)>>

\* Board: the square the element at cell passes to onSquareClick, sq in
\* renderSquare with the rankIndex renderRank was given
Board2DClick(o, cell) ==
  LET rankIndex == IF o = "white" THEN (TopRank - 1) - cell[2] ELSE cell[2]
  IN <<cell[1] + 1, rankIndex + 1>>

\* Board3D: the tile on which the man of square sq is placed
Board3DPlace(o, sq) ==
  LET rankIdx == sq[2] - 1
  IN <<sq[1] - 1, IF o = "white" THEN (TopRank - 1) - rankIdx ELSE rankIdx>>

\* Board3D: the squares whose men are drawn on the tile cell
Board3DDrawn(o, cell) == {sq \in Squares : Board3DPlace(o, sq) = cell}

\* Board3D: userData.square of the tile cell, passed to onSquareClick
Board3DClick(o, cell) ==
  <<cell[1] + 1, IF o = "white" THEN TopRank - cell[2] ELSE cell[2] + 1>>

\* ------------------------------------------------- a room of two participants
\* updatePeerCount(): the colour of a participant with colour color that
\* counts size peers
RoomColor(size, color) == IF size = 0 THEN "w" ELSE color

\* connectRoom() by participant i.  A participant that joins may or may not
\* find the other one in its peer list already; one that connects again
\* without having left finds the peers it had.
RoomConnect(i) ==
  LET me == room[i] IN
  /\ ~me.mp
  /\ \E size \in 0..1 :
       /\ size = 1 => room[OtherOf(i)].conn
       /\ me.conn => size = (IF me.sees THEN 1 ELSE 0)
       /\ room' = [room EXCEPT ![i] =
                     [conn |-> TRUE, mp |-> TRUE, sees |-> size = 1,
                      isHost |-> IsHostFor(size), color |-> RoomColor(size, me.color),
                      closHost |-> me.isHost, inbox |-> me.inbox]]
  /\ UNCHANGED appVars

\* room.onPeerJoin handler of participant i: updatePeerCount(), then the
\* greeting if the handler closed over a set host flag
RoomPeerJoin(i) ==
  LET me == room[i]
      j == OtherOf(i)
  IN /\ me.conn /\ room[j].conn /\ ~me.sees
     /\ me.closHost => Len(room[j].inbox) < MaxInbox
     /\ room' = [room EXCEPT
                   ![i] = [me EXCEPT !.sees = TRUE,
                                     !.isHost = IsHostFor(1),
                                     !.color = IF me.closHost THEN "w"
                                               ELSE RoomColor(1, me.color)],
                   ![j] = [room[j] EXCEPT
                             !.inbox = IF me.closHost THEN Append(@, "b") ELSE @]]
     /\ UNCHANGED appVars

\* room.onPeerLeave handler of participant i, after the other one left
RoomPeerLeave(i) ==
  LET me == room[i] IN
  /\ me.conn /\ me.sees /\ ~room[OtherOf(i)].conn
  /\ room' = [room EXCEPT ![i] = [me EXCEPT !.sees = FALSE,
                                            !.isHost = IsHostFor(0),
                                            !.color = RoomColor(0, me.color)]]
  /\ UNCHANGED appVars

\* conn.onCtrl handler of participant i, case assign
RoomAssign(i) ==
  LET me == room[i] IN
  /\ me.conn /\ me.inbox # <<>>
  /\ room' = [room EXCEPT ![i] = [me EXCEPT !.color = AssignedColor(Head(me.inbox)),
                                            !.inbox = Tail(me.inbox)]]
  /\ UNCHANGED appVars

\* disconnectRoom() by participant i (the Leave button, shown while
\* multiplayer is on)
RoomLeave(i) ==
  /\ room[i].mp
  /\ room' = [room EXCEPT ![i] = Absent]
  /\ UNCHANGED appVars

\* the single-player Enabled button pressed by participant i in a session:
\* multiplayer is switched off, the connection stays
RoomEnableSinglePlayer(i) ==
  /\ room[i].mp
  /\ room' = [room EXCEPT ![i] = [room[i] EXCEPT !.mp = FALSE]]
  /\ UNCHANGED appVars

\* --------------------------------------------------- inputs and the machine
\* move payloads a peer can send (NoSq / NoPromo: the field is absent): the
\* moves that are legal now, as generated and with a queen asked for; the
\* opening moves without a promotion piece (stale or incomplete elsewhere);
\* and an empty payload
Payload(from, to, promo) == [from |-> from, to |-> to, promotion |-> promo]
SeqRange(q) == {q[i] : i \in 1..Len(q)}
OpeningInputs ==
  {Payload(m.from, m.to, NoPromo) : m \in SeqRange(Moves(NewChess))}
  \cup {Payload(NoSq, NoSq, NoPromo)}
MoveInputs ==
  LET legal == SeqRange(Moves(game)) IN
  {Payload(m.from, m.to, m.promotion) : m \in legal}
  \cup {Payload(m.from, m.to, "q") : m \in legal}
  \cup OpeningInputs

\* a position a peer can be in: after a1-a2, a3xb2
MidGame ==
  [board |-> [s \in Squares |->
                IF s = <<1, 2>> THEN "P"
                ELSE IF s = <<2, 2>> THEN "p" ELSE EmptySq],
   turn |-> "w", moveNumber |-> 2, history |-> <<>>]

\* serialized states a peer can send: two well-formed ones and a malformed one
BadFen == <<"P", "/", "x">>
NoData == [null |-> TRUE, hasFen |-> FALSE, fen |-> <<>>, hasOrientation |-> FALSE, orientation |-> ""]
SyncData(f, o) ==
  [null |-> FALSE, hasFen |-> TRUE, fen |-> f, hasOrientation |-> TRUE, orientation |-> o]
SyncInputs ==
  {NoData, SyncData(Fen(NewChess), "black"), SyncData(Fen(MidGame), "white"),
   SyncData(BadFen, "black"),
   [null |-> FALSE, hasFen |-> FALSE, fen |-> <<>>,
    hasOrientation |-> TRUE, orientation |-> "black"],
   [null |-> FALSE, hasFen |-> TRUE, fen |-> Fen(MidGame),
    hasOrientation |-> FALSE, orientation |-> ""]}

\* control payloads a peer can send ("none": no message or no type)
CtrlInputs ==
  [type : {"assign"}, color : {"w", "b", "x"}] \cup
  [type : {"undo", "reset", "none", "other"}, color : {NoColor}]

Next ==
  \/ \E sq \in Squares : HandleSquareClick(sq)
  \/ \E piece \in PromoPieces : ChoosePromotion(piece)
  \/ CancelPromotion
  \/ UndoClick
  \/ ResetClick
  \/ Flip
  \/ EnableSinglePlayer
  \/ DisableSinglePlayer
  \/ \E c \in Colors : SetSpMyColor(c)
  \/ \E jobId \in timers, level \in Difficulties : Think(jobId, level)
  \/ ConnectRoom
  \/ DisconnectRoom
  \/ \E type \in {"undo", "reset"} : AskCtrl(type)
  \/ OnPeerJoin
  \/ OnPeerLeave
  \/ \E data \in MoveInputs : OnMove(data)
  \/ \E data \in SyncInputs : OnSync(data)
  \/ \E msg \in CtrlInputs : OnCtrl(msg)

Spec == Init /\ [][Next]_vars

\* The machine is explored in parts, each a restriction of Next:
\*   SpecLocal    the board, the controls and the search opponent, never
\*                connected;
\*   SpecPeer     the board and the controls in a room, used once single-player
\*                is off (connecting switches it off);
\*   SpecInbound  a connected participant: the board, peers coming and going,
\*                and every message a peer can send;
\*   SpecMixed    single-player switched back on while the connection is open:
\*                the search opponent together with local and inbound undo and
\*                reset;
\*   SpecAgentPeer  the same situation, with the moves a peer sends instead
\*                of undo and reset;
\*   SpecModes    the switches between the opponent modes: connecting,
\*                leaving, single-player on and off, with the search opponent.
\*   SpecRoom     two participants of one room joining, discovering each
\*                other, being assigned colours and leaving.
\* The engine is a pure function of the position it is given.  SpecEngine
\* hands it every position of up to MaxMen men: a search job has been issued
\* in that position and its think callback runs.
NextLocal ==
  \/ \E sq \in Squares : HandleSquareClick(sq)
  \/ \E piece \in PromoPieces : ChoosePromotion(piece)
  \/ CancelPromotion
  \/ UndoClick
  \/ ResetClick
  \/ Flip
  \/ EnableSinglePlayer
  \/ DisableSinglePlayer
  \/ \E c \in Colors : SetSpMyColor(c)
  \/ \E jobId \in timers, level \in Difficulties : Think(jobId, level)

SpecLocal == Init /\ [][NextLocal]_vars

NextPeer ==
  \/ DisableSinglePlayer
  \/ ConnectRoom
  \/ \E sq \in Squares : ~spEnabled /\ HandleSquareClick(sq)
  \/ \E piece \in PromoPieces : ~spEnabled /\ ChoosePromotion(piece)
  \/ ~spEnabled /\ CancelPromotion
  \/ ~spEnabled /\ UndoClick
  \/ ~spEnabled /\ ResetClick
  \/ ~spEnabled /\ Flip
  \/ ~spEnabled /\ DisconnectRoom
  \/ \E type \in {"undo", "reset"} : ~spEnabled /\ AskCtrl(type)
  \/ ~spEnabled /\ OnPeerJoin
  \/ ~spEnabled /\ OnPeerLeave
  \/ \E data \in MoveInputs : ~spEnabled /\ OnMove(data)
  \/ \E data \in SyncInputs : ~spEnabled /\ OnSync(data)
  \/ \E msg \in CtrlInputs : ~spEnabled /\ OnCtrl(msg)

SpecPeer == Init /\ [][NextPeer]_vars

NextInbound ==
  \/ ConnectRoom
  \/ \E sq \in Squares : p2p.conn /\ HandleSquareClick(sq)
  \/ \E piece \in PromoPieces : p2p.conn /\ ChoosePromotion(piece)
  \/ OnPeerJoin
  \/ OnPeerLeave
  \/ \E data \in MoveInputs : OnMove(data)
  \/ \E data \in SyncInputs : OnSync(data)
  \/ \E msg \in CtrlInputs : OnCtrl(msg)

SpecInbound == Init /\ [][NextInbound]_vars

NextMixed ==
  \/ ConnectRoom
  \/ \E sq \in Squares : p2p.conn /\ HandleSquareClick(sq)
  \/ p2p.conn /\ UndoClick
  \/ p2p.conn /\ ResetClick
  \/ p2p.conn /\ EnableSinglePlayer
  \/ \E c \in Colors : p2p.conn /\ SetSpMyColor(c)
  \/ \E jobId \in timers, level \in Difficulties : p2p.conn /\ Think(jobId, level)
  \/ \E msg \in CtrlInputs : msg.type # "assign" /\ OnCtrl(msg)

SpecMixed == Init /\ [][NextMixed]_vars

NextAgentPeer ==
  \/ ConnectRoom
  \/ p2p.conn /\ EnableSinglePlayer
  \/ \E sq \in Squares : p2p.conn /\ spEnabled /\ HandleSquareClick(sq)
  \/ \E piece \in PromoPieces : p2p.conn /\ spEnabled /\ ChoosePromotion(piece)
  \/ \E jobId \in timers, level \in Difficulties : Think(jobId, level)
  \/ \E data \in MoveInputs : spEnabled /\ OnMove(data)

SpecAgentPeer == Init /\ [][NextAgentPeer]_vars

NextModes ==
  \/ ConnectRoom
  \/ DisconnectRoom
  \/ EnableSinglePlayer
  \/ DisableSinglePlayer
  \/ \E c \in Colors : SetSpMyColor(c)
  \/ Flip
  \/ OnPeerJoin
  \/ OnPeerLeave
  \/ \E jobId \in timers, level \in Difficulties : Think(jobId, level)

SpecModes == Init /\ [][NextModes]_vars

NextRoom ==
  \/ \E i \in Participants : RoomConnect(i)
  \/ \E i \in Participants : RoomPeerJoin(i)
  \/ \E i \in Participants : RoomPeerLeave(i)
  \/ \E i \in Participants : RoomAssign(i)
  \/ \E i \in Participants : RoomLeave(i)
  \/ \E i \in Participants : RoomEnableSinglePlayer(i)

SpecRoom == Init /\ [][NextRoom]_vars

\* the boards given to the engine: at most MaxMen men, no pawn on the rank
\* where it would have promoted
EngineBoards ==
  {b \in [Squares -> PieceChars \cup {EmptySq}] :
     /\ Cardinality({s \in Squares : b[s] # EmptySq}) <= MaxMen
     /\ \A s \in Squares :
          TypeOf(b[s]) = "p" => s[2] # LastRank(ColorOf(b[s]))}

\* the settings computeBestMove is asked with: randomness in percent
EngineParams == [depth : 0..MaxDepth, randomness : {0, 15, 50, 100}]

\* single-player, the agent to move in a position of EngineBoards, job 1 issued
InitEngine ==
  /\ \E b \in EngineBoards, t \in Colors :
       /\ game = [board |-> b, turn |-> t, moveNumber |-> 1, history |-> <<>>]
       /\ spMyColor = Other(t)
  /\ fen = Fen(game)
  /\ selected = NoSq
  /\ orientation = "white"
  /\ pendingPromotion = NoPending
  /\ lastMove = NoLast
  /\ mpEnabled = FALSE
  /\ isHost = FALSE
  /\ myP2PColor = NoColor
  /\ peerCount = 0
  /\ p2p = NoConn
  /\ spEnabled = TRUE
  /\ aiJob = [id |-> 1, cancelled |-> FALSE]
  /\ timers = {1}
  /\ roomPeers = 0
  /\ out = <<>>
  /\ ev = [op |-> "init", applied |-> FALSE, job |-> 0, pend |-> FALSE]
  /\ invalidated = {}
  /\ room = NoRoom

NextEngine ==
  \E jobId \in timers, level \in Difficulties : Think(jobId, level)

SpecEngine == InitEngine /\ [][NextEngine]_vars

TypeOK ==
  /\ game.turn \in Colors
  /\ selected \in Squares \cup {NoSq}
  /\ myP2PColor \in Colors \cup {NoColor}
  /\ aiJob.id \in 0..MaxJobId

\* ---------------------------------------------------------------------------
\* Properties
\* ---------------------------------------------------------------------------

LocalMoveOps == {"click", "promote"}
InboundOps == {"recvMove", "recvSync", "recvAssign", "recvUndo", "recvReset", "recvOther"}

\* C1: in multiplayer mode a move of the local human (a click or a promotion
\* choice) is applied only if the assigned colour equals the side to move at
\* that moment; with no colour assigned nothing is applied.
C1_LocalMoveNeedsOwnColor ==
  [][(mpEnabled /\ ev'.op \in LocalMoveOps /\ ev'.applied) => myP2PColor = game.turn]_vars

\* C2: in single-player mode no move of the local human is applied while the
\* side to move is not the human's colour.
C2_HumanMovesOwnColorOnly ==
  [][(spEnabled /\ ev'.op \in LocalMoveOps /\ ev'.applied) => spMyColor = game.turn]_vars

\* C3: a think callback applies its result only if its job is the latest one
\* issued and is not cancelled; a job that was superseded, or that was pending
\* when an undo or a reset cancelled the search, applies nothing.
C3_StaleJobAppliesNothing ==
  [][(ev'.op = "think" /\ ev'.applied)
       => (ev'.job = aiJob.id /\ ~aiJob.cancelled /\ ev'.job \notin invalidated)]_vars

\* C3 case: the callback of a job cancelled by an undo or a reset has fired and
\* applied nothing, after a newer job was issued.
C3_Witness ==
  ev.op = "think" /\ ~ev.applied /\ ev.job \in invalidated /\ ev.job < aiJob.id

\* C4: handling an inbound message (a move, a sync, or a control message of
\* any type) sends nothing.
C4_InboundSendsNothing == ev.op \in InboundOps => out = <<>>

\* C4 case: an inbound undo has taken back a ply in multiplayer mode.
C4_Witness ==
  ev.op = "recvUndo" /\ ev.applied /\ mpEnabled /\ p2p.conn /\ out = <<>>

\* C5: when a peer joins while the local participant is Host, the current
\* position and orientation are sent as a sync and the joiner is assigned black.
C5_HostGreetsJoiner ==
  [][(ev'.op = "peerJoin" /\ mpEnabled /\ isHost)
       => out' = <<SyncMsg(Fen(game), orientation), CtrlMsg("assign", "b")>>]_vars

\* C6: a participant who connects to a room with no other participant in it is
\* Host, plays white and has multiplayer mode on.
C6_EmptyRoomMakesHost ==
  (ev.op = "connect" /\ roomPeers = 0)
    => (isHost /\ myP2PColor = "w" /\ mpEnabled /\ peerCount = 0)

\* C6 case: a connect has found the room empty.
C6_Witness == ev.op = "connect" /\ roomPeers = 0 /\ p2p.conn /\ isHost

C8_SyncIsHardReset ==
  [][(ev'.op = "recvSync" /\ ev'.applied)
       => \A data \in SyncInputs :
            (~data.null /\ data.hasFen /\ ValidFen(data.fen) /\ OnSync(data))
              => /\ fen' = data.fen
                 /\ Fen(game') = data.fen
                 /\ selected' = NoSq
                 /\ pendingPromotion' = NoPending
                 /\ lastMove' = NoLast]_vars

\* C8 case: a sync has replaced the position by the mid-game one while a
\* promotion was pending.
C8_Witness ==
  ev.op = "recvSync" /\ ev.applied /\ ev.pend /\ fen = Fen(MidGame)

\* C9 as stated: while a promotion is pending, a square click, an undo request
\* and a reset request are all ignored.
C9_ModalLockOnAllRequests ==
  [][(pendingPromotion # NoPending /\ ev'.op \in {"click", "undo", "reset"})
       => (game' = game /\ pendingPromotion' = pendingPromotion)]_vars

\* C9: while a promotion is pending a square click is ignored; a reset request
\* is not, nor is an undo request with a ply to take back: each is applied and
\* clears the pending promotion.
C9_ModalLockOnClicks ==
  [][pendingPromotion # NoPending
       => /\ ev'.op = "click"
               => /\ game' = game
                  /\ fen' = fen
                  /\ pendingPromotion' = pendingPromotion
                  /\ selected' = selected
                  /\ lastMove' = lastMove
          /\ ev'.op = "reset"
               => (game' = NewChess /\ pendingPromotion' = NoPending)
          /\ (ev'.op = "undo" /\ Len(game.history) > 0)
               => /\ Len(game'.history) = Len(game.history) - 1
                  /\ pendingPromotion' = NoPending]_vars

\* C9 case: a square was clicked while a promotion was pending, and it still is.
C9_Witness == ev.op = "click" /\ ev.pend /\ ~ev.applied /\ pendingPromotion # NoPending

\* C10: a legal inbound move that arrives while a promotion is pending is
\* applied: the position changes, the turn passes and the move becomes the
\* last move.
C10_InboundMoveDuringPromotion ==
  [][(ev'.op = "recvMove" /\ pendingPromotion # NoPending)
       => \A data \in MoveInputs :
            (IsLegal(game, data.from, data.to, data.promotion) /\ OnMove(data))
              => /\ game'.turn = Other(game.turn)
                 /\ game'.board # game.board
                 /\ Len(game'.history) = Len(game.history) + 1
                 /\ fen' = Fen(game')
                 /\ fen' # fen
                 /\ pendingPromotion' = pendingPromotion
                 /\ lastMove' = [from |-> data.from, to |-> data.to]]_vars

\* C10 case: an inbound move was applied while a promotion was pending.
C10_Witness ==
  ev.op = "recvMove" /\ ev.applied /\ ev.pend /\ pendingPromotion # NoPending

\* C11: after a promotion choice made while a promotion from -> to is pending,
\* the move from -> to with the chosen piece has been attempted and the
\* interaction is idle: no square is selected and no promotion is pending.
C11_PromotionChoiceReturnsToIdle ==
  [][ev'.op = "promote"
       => /\ selected' = NoSq
          /\ pendingPromotion' = NoPending
          /\ ev'.applied =>
               /\ lastMove' = pendingPromotion
               /\ TypeOf(game'.board[pendingPromotion.to]) \in PromoPieces]_vars

\* C12: a cancel made while a promotion is pending leaves the position as it
\* was, and afterwards no promotion is pending and no square is selected.
C12_PromotionCancelReturnsToIdle ==
  [][ev'.op = "promoCancel"
       => /\ game' = game
          /\ fen' = fen
          /\ pendingPromotion' = NoPending
          /\ selected' = NoSq]_vars

MoveOps == {"click", "promote", "think", "recvMove"}
UndoOps == {"undo", "recvUndo"}
ResetOps == {"reset", "recvReset"}

\* C13: right after a move is applied (from a click, a promotion choice, a
\* search result or an inbound move), after a ply is undone and after a reset,
\* the interaction is idle: no square is selected and no promotion is pending.
C13_IdleAfterPositionChange ==
  ((ev.op \in MoveOps \cup UndoOps /\ ev.applied) \/ ev.op \in ResetOps)
    => (selected = NoSq /\ pendingPromotion = NoPending)

\* C14: in every reachable state a selected square holds a man of the side to
\* move, and the from-square of a pending promotion holds a pawn of the side
\* to move.
C14_IntentsReferToCurrentPosition ==
  /\ selected # NoSq => ColorOf(game.board[selected]) = game.turn
  /\ pendingPromotion # NoPending
       => /\ TypeOf(game.board[pendingPromotion.from]) = "p"
          /\ ColorOf(game.board[pendingPromotion.from]) = game.turn

CtrlCount(msgs, t) ==
  Cardinality({i \in 1..Len(msgs) : msgs[i].kind = "control" /\ msgs[i].type = t})

JobIssued ==
  /\ aiJob'.id = aiJob.id + 1
  /\ ~aiJob'.cancelled
  /\ aiJob'.id \in timers'

\* C17: after a move is applied from a click, a promotion choice or an inbound
\* move, if single-player is on, the agent is to move and the game is not
\* over, a new search job has been issued.
C17_AgentTurnIssuesJob ==
  [][(/\ ev'.op \in {"click", "promote", "recvMove"}
      /\ ev'.applied
      /\ spEnabled
      /\ game'.turn # spMyColor
      /\ ~IsGameOver(game'))
       => JobIssued]_vars

\* the latest job is not cancelled and its timer has yet to fire
LiveJobPending == aiJob.id \in timers /\ ~aiJob.cancelled

\* C18: in single-player mode, whenever it is the agent's turn and the game is
\* not over, an agent move is eventually applied without further user input.
\* A move of the agent is applied only by the think of the latest job that is
\* not cancelled, so the claim needs such a job to be pending in every state
\* where the agent is to move: without one, no step but a user's changes the
\* position.
C18_AgentTurnHasLiveJob ==
  WantsAIMove(game, spEnabled, spMyColor) => LiveJobPending

\* C19: with single-player on and the human playing black, a search job is
\* issued whenever the position is the start position: when single-player is
\* switched on, when black is chosen and after any full reset.
C19_BlackHumanStartIssuesJob ==
  [][(/\ \/ ev'.op = "spOn" /\ ~spEnabled
         \/ ev'.op = "spColor" /\ spMyColor # "b"
         \/ ev'.op \in ResetOps
      /\ spEnabled'
      /\ spMyColor' = "b"
      /\ fen' = Fen(NewChess))
       => JobIssued]_vars

\* C20: an undo with an empty history (at the start, after a reset, after a
\* position loaded from a sync) changes nothing: the serialized position is
\* the same and no message is sent.
C20_EmptyUndoIsNoOp ==
  [][(ev'.op \in UndoOps /\ Len(game.history) = 0)
       => (game' = game /\ fen' = fen /\ out' = <<>>)]_vars

\* the Undo button pressed in a session on a position loaded from a sync
C20_Witness ==
  /\ ev.op = "undo"
  /\ ~ev.applied
  /\ mpEnabled /\ p2p.conn
  /\ Len(game.history) = 0
  /\ fen # Fen(NewChess)
  /\ out = <<>>

\* C21: a move attempt that the rules engine rejects, whether it comes from a
\* click, a promotion choice, a search result or an inbound move, leaves the
\* position, the side to move, the history, the serialized position and the
\* last-move record as they were, and sends nothing.  An attempt is rejected
\* when the step reports no applied move or leaves the engine's position
\* untouched.
C21_RejectedMoveChangesNothing ==
  [][(ev'.op \in MoveOps /\ (~ev'.applied \/ game' = game))
       => /\ game' = game
          /\ fen' = fen
          /\ lastMove' = lastMove
          /\ out' = <<>>
          /\ aiJob' = aiJob]_vars

\* C21 case: in a session, after a move was recorded, a promotion choice was
\* rejected and the record of the last move is still there.
C21_Witness ==
  /\ ev.op = "promote"
  /\ ~ev.applied
  /\ mpEnabled /\ p2p.conn
  /\ lastMove # NoLast
  /\ Len(game.history) > 0
  /\ out = <<>>

\* the position, history, interaction state and last-move record that a reset
\* leaves: the initial position, nothing selected or pending, no last move
AfterReset(g, f, sel, pend, last) ==
  /\ g = NewChess
  /\ f = Fen(NewChess)
  /\ sel = NoSq
  /\ pend = NoPending
  /\ last = NoLast

\* C22: reset is idempotent: a reset leaves the initial position with an
\* empty history, no selection, no pending promotion and no last move, and a
\* reset that follows a reset changes none of them.
C22_ResetIsIdempotent ==
  [][ev'.op \in ResetOps
       => /\ AfterReset(game', fen', selected', pendingPromotion', lastMove')
          /\ ev.op \in ResetOps
               => /\ game' = game
                  /\ fen' = fen
                  /\ selected' = selected
                  /\ pendingPromotion' = pendingPromotion
                  /\ lastMove' = lastMove]_vars

\* C22 case: in a session where every job token comes from an undo or reset
\* request, a reset has been handled after an earlier such request.
C22_Witness ==
  /\ ev.op = "reset"
  /\ aiJob.id >= 2
  /\ mpEnabled /\ p2p.conn
  /\ AfterReset(game, fen, selected, pendingPromotion, lastMove)

\* the steps that change the position: a move, an undo, a reset, a sync load
PositionOps == MoveOps \cup UndoOps \cup ResetOps \cup {"recvSync"}

\* C23: the position changes only in the steps that apply a move, undo a
\* ply, reset or load a sync; every other step (selecting, deselecting,
\* entering or cancelling a promotion, flipping, joining or leaving a room,
\* issuing or cancelling a job, a search that applies nothing) leaves the
\* position, its history and its serialized form as they were.
C23_PositionChangesOnlyByItsOperations ==
  [][(game' # game \/ fen' # fen) => (ev'.op \in PositionOps /\ ev'.applied)]_vars

\* C23 case: in the middle of a game a sync that carried no loadable position
\* was handled, and the position and its history are still there.
C23_Witness ==
  /\ ev.op = "recvSync"
  /\ ~ev.applied
  /\ Len(game.history) > 0
  /\ fen = Fen(game)
  /\ fen # Fen(NewChess)

\* C24: an inbound sync whose serialized state is malformed or missing is
\* dropped: the position is unchanged, and so are the orientation, the
\* selection, the pending promotion and the last move.
C24_MalformedSyncIsDropped ==
  [][(ev'.op = "recvSync" /\ ~ev'.applied)
       => /\ game' = game
          /\ fen' = fen
          /\ orientation' = orientation
          /\ selected' = selected
          /\ pendingPromotion' = pendingPromotion
          /\ lastMove' = lastMove]_vars

C27_ClickOnOwnManReselects ==
  [][(ev'.op = "click" /\ selected # NoSq /\ pendingPromotion = NoPending)
       => \A sq \in Squares :
            HandleSquareClick(sq)
              => IF sq = selected
                 THEN selected' = NoSq /\ game' = game /\ fen' = fen
                 ELSE ColorOf(game.board[sq]) = game.turn
                        => /\ selected' = sq
                           /\ game' = game
                           /\ fen' = fen
                           /\ pendingPromotion' = NoPending]_vars

\* C28: computeBestMove returns no move exactly when the position it is given
\* has no legal move, and otherwise one of the position's legal moves, for
\* every depth and randomness setting.
C28_BestMoveIsLegalOrNone ==
  \A params \in EngineParams :
    LET results == ComputeBestMove(fen, params) IN
    /\ results = {} <=> Len(Moves(game)) = 0
    /\ results \subseteq SeqRange(Moves(game))

\* C28 case: the move the engine chose has been applied and left a position
\* without a legal move, for which it returns none.
C28_Witness ==
  /\ ev.op = "think"
  /\ ev.applied
  /\ Len(game.history) = 1
  /\ Len(Moves(game)) = 0
  /\ ComputeBestMove(fen, [depth |-> 2, randomness |-> 0]) = {}

\* the first move of the ordering whose value, searched without a window to
\* depth - 1, is the minimax value of pos
FirstOptimal(pos, depth, maximizer) ==
  LET ms == OrderMoves(Moves(pos))
      vals == MinimaxChildren(pos, ms, depth, maximizer)
      opt == Minimax(pos, depth, maximizer)
      I == {i \in 1..Len(ms) : vals[i] = opt}
  IN ms[CHOOSE i \in I : \A j \in I : i <= j]

\* C29: for every position and depth, the score the alpha-beta search
\* returns from the full window is the minimax value to that depth (White
\* maximizing, Black minimizing), and the move it returns at the root is the
\* first move of the ordering whose minimax value is that optimum.
C29_AlphaBetaIsMinimax ==
  \A depth \in 1..MaxDepth :
    LET maximizer == game.turn = "w"
        r == Search(game, depth, -Inf, Inf, maximizer)
    IN /\ r.score = Minimax(game, depth, maximizer)
       /\ ~IsGameOver(game) => r.move = FirstOptimal(game, depth, maximizer)

\* C30: the static evaluation of a finished game: a checkmate scores the
\* value of largest magnitude against the side that is mated (the most
\* negative when White is to move, the most positive when Black is), a
\* stalemate or draw scores exactly 0, and no other position reaches the
\* magnitude of a checkmate.
C30_TerminalEvaluation ==
  /\ IsCheckmate(game) => Evaluate(game) = (IF game.turn = "w" THEN -Inf ELSE Inf)
  /\ IsDrawn(game) => Evaluate(game) = 0
  /\ ~IsGameOver(game) => (-Inf < Evaluate(game) /\ Evaluate(game) < Inf)

\* C30 case: the agent, playing Black, has taken White's last man: White is
\* to move and mated, and the position scores the most negative value.
C30_Witness ==
  /\ ev.op = "think"
  /\ ev.applied
  /\ game.turn = "w"
  /\ IsCheckmate(game)
  /\ Evaluate(game) = -Inf

\* the first min(TopK, n) moves of the capture/promotion-first ordering
TopOrdered(pos) ==
  LET ms == OrderMoves(Moves(pos))
  IN {ms[i] : i \in 1..MinOf(TopK, Len(ms))}

\* C31: computeBestMove returns a move other than the one the search returns
\* only in the randomized branch, taken only when depth <= 1 and randomness
\* > 0, and then one of the first min(4, n) moves of the ordering; for depth
\* >= 2 or randomness 0 two runs on the same position return the same move.
C31_OnlyRandomBranchDeviates ==
  \A params \in {p \in EngineParams : p.depth >= 1} :
    LET searched == Search(game, params.depth, -Inf, Inf, game.turn = "w").move
        results == ComputeBestMove(fen, params)
        randomized == params.depth <= 1 /\ params.randomness > 0
    IN /\ \A m \in results :
            m # searched => (randomized /\ m \in TopOrdered(game))
       /\ ~randomized => Cardinality(results) <= 1

\* C32: the result of a search is applied only while single-player is still
\* enabled and the side to move is still the agent's colour, whatever was
\* interleaved with the pending job.
C32_SearchAppliedOnlyOnAgentTurn ==
  [][(ev'.op = "think" /\ ev'.applied)
       => (spEnabled /\ game.turn # spMyColor)]_vars

\* C33: in a room with two connected participants the two never hold the
\* same assigned colour and are never both host, whatever the order in which
\* the joins, peer-join and peer-leave events are observed.
C33_DistinctRolesInRoom ==
  (room[1].conn /\ room[2].conn) =>
     /\ ~(room[1].isHost /\ room[2].isHost)
     /\ room[1].color = NoColor \/ room[1].color # room[2].color

\* C34: an inbound move message of a peer is applied only when the side to
\* move is not the local participant's assigned colour; a peer never moves
\* the local participant's men.
C34_PeerMoveNeverMovesLocalSide ==
  [][(ev'.op = "recvMove" /\ ev'.applied) => game.turn # myP2PColor]_vars

\* C35: a promotion from -> to becomes pending only when from -> to is a
\* legal move of a pawn to its farthest rank in the current position; a click
\* that does not form such a move never opens the promotion dialog.
C35_PendingPromotionIsLegalPawnMove ==
  [][(ev'.op = "click" /\ pendingPromotion = NoPending /\ pendingPromotion' # NoPending)
       => /\ TypeOf(game.board[pendingPromotion'.from]) = "p"
          /\ \E piece \in PromoPieces :
               IsLegal(game, pendingPromotion'.from, pendingPromotion'.to, piece)]_vars

\* C36: every outbound undo or reset control message goes with an undo or a
\* reset that the sender applied to its own position in the same step: with
\* an undo message the sender took back its last ply, with a reset message
\* the sender's position is the start position.
C36_CtrlMessageMirrorsLocalChange ==
  [][\A i \in 1..Len(out') :
       /\ (out'[i].kind = "control" /\ out'[i].type = "undo")
            => (HasHistory /\ game' = GameUndo(game))
       /\ (out'[i].kind = "control" /\ out'[i].type = "reset")
            => game' = NewChess]_vars

\* C37: after every completed operation the serialized position handed to
\* the presentation layer is the serialized position of the position store;
\* no operation changes the store without updating the projection.
C37_ProjectionEqualsStore == fen = Fen(game)

\* a sync of a peer has replaced the position by one that is not the start
\* position, and the projection shows it
C37_Witness ==
  /\ ev.op = "recvSync" /\ ev.applied
  /\ game # NewChess
  /\ fen = Fen(game)

\* game.history({ verbose: true }): the most recent ply of pos went from -> to
LastPlyIs(pos, from, to) ==
  /\ Len(pos.history) > 0
  /\ LET prev == GameUndo(pos)
         ms == Moves(prev)
     IN \E i \in 1..Len(ms) :
          /\ ms[i].from = from
          /\ ms[i].to = to
          /\ MakeMove(prev, ms[i]) = pos

\* C38: if a last-move record is present then the history is not empty and
\* the record's from and to are those of the most recent ply; undo, reset and
\* sync never leave a record of a ply that is no longer in the position.
C38_LastMoveIsLastPly ==
  lastMove # NoLast => LastPlyIs(game, lastMove.from, lastMove.to)

\* a second ply has been played and recorded
C38_Witness ==
  /\ Len(game.history) = 2
  /\ lastMove # NoLast
  /\ LastPlyIs(game, lastMove.from, lastMove.to)

\* C39: in the 2D and in the 3D view, for the orientation shown and every
\* cell, the square passed to the click handler when the cell is clicked is
\* the square whose man the view draws at that cell.
C39_ClickedSquareIsDrawnSquare ==
  \A cell \in Cells :
    /\ Board2DClick(orientation, cell) = Board2DDrawn(orientation, cell)
    /\ Board3DDrawn(orientation, cell) = {Board3DClick(orientation, cell)}

\* C40: the recursive search restores its working position: each move made
\* while exploring a node is undone before the next sibling is tried or the
\* node returns, on a pruning cut too, so that when search returns the
\* working position, history included, is the one it was called with; and
\* what it returns is what the search on copies returns.
C40_SearchRestoresPosition ==
  \A depth \in 0..MaxDepth :
    LET r == SearchInPlace(game, depth, -Inf, Inf, game.turn = "w")
        s == Search(game, depth, -Inf, Inf, game.turn = "w")
    IN r.chess = game /\ r.score = s.score /\ r.move = s.move

\* a search from a position with a ply behind it that pruned at least once
\* and returned a move
C40_Witness ==
  LET r == SearchInPlace(game, MaxDepth, -Inf, Inf, game.turn = "w")
  IN /\ Len(game.history) > 0
     /\ r.cuts > 0
     /\ r.move # NoMove
     /\ r.chess = game

====
